---- MODULE Spec2Model ----
(***************************************************************************)
(* Model of the FutabaNAGP1250 streaming demo: the Node.js producer        *)
(* (stream.js), the serial link, and the ESP32 consumer (src/main.cpp).    *)
(*                                                                         *)
(* Three groups of state share the module:                                 *)
(*   - the run-length codec on its own (packBits / unpackBits), driven by  *)
(*     CodecSpec;                                                          *)
(*   - the consumer's packet handler fed with arbitrary packets,           *)
(*     driven by ConsumerSpec;                                             *)
(*   - producer, link and consumer together, driven by Spec (safety) and   *)
(*     FairSpec (liveness).                                                *)
(***************************************************************************)
EXTENDS Integers, Sequences, FiniteSets, TLC

\* ------------------------------------------------------------------------
\* Bounds of the model (not program constants unless noted).
\* ------------------------------------------------------------------------

\* stream.js:42 FRAME_SIZE_BYTES and main.cpp:11/89/94/95 use 560; the model
\* runs both ends with the same, scaled-down frame size.
FRAME_SIZE_BYTES == 3

\* stream.js:64 KEYFRAME_INTERVAL is 30; scaled down so that keyframes occur.
KEYFRAME_INTERVAL == 3

\* Longest arbitrary buffer / malformed compressed stream tried by the codec.
MaxLen == 4

\* Largest number of runs a structured codec input is built from.
MaxRuns == 2

\* ------------------------------------------------------------------------
\* Program constants.
\* ------------------------------------------------------------------------
STATUS_OK == 165
STATUS_ERR_VERIFY == 225
STATUS_ERR_NODATA == 226
STATUS_ERR_OTHER == 227

FrameType_Full == 0
FrameType_Delta == 1

\* packBits caps runs and literals at 128 (stream.js:125,135).
MaxSegment == 128

\* Queue trim threshold in frames (stream.js:292).
QueueFrames == 5

\* ------------------------------------------------------------------------
\* Bit operations on non-negative integers.
\* ------------------------------------------------------------------------
RECURSIVE BitXor(_, _)
BitXor(a, b) ==
    IF a = 0 THEN b
    ELSE IF b = 0 THEN a
    ELSE (((a % 2) + (b % 2)) % 2) + 2 * BitXor(a \div 2, b \div 2)

Max(a, b) == IF a > b THEN a ELSE b

\* A 32-bit word is kept as <<high 16 bits, low 16 bits>>.
WXor(w, v) == <<BitXor(w[1], v[1]), BitXor(w[2], v[2])>>
WNot(w) == <<65535 - w[1], 65535 - w[2]>>
WShr1(w) == <<w[1] \div 2, (w[2] \div 2) + (w[1] % 2) * 32768>>
WShr8(w) == <<w[1] \div 256, (w[2] \div 256) + (w[1] % 256) * 256>>
POLY == <<60856, 33568>>     \* 0xEDB88320
ONES == <<65535, 65535>>     \* 0xFFFFFFFF, and -1 as a 32-bit pattern

\* ------------------------------------------------------------------------
\* CRC32, consumer side (main.cpp:19-29): bitwise.
\* ------------------------------------------------------------------------
\* One round of the inner loop: if (crc & 1) crc = (crc >> 1) ^ POLY; else crc >>= 1
crcShift(crc) == IF crc[2] % 2 = 1 THEN WXor(WShr1(crc), POLY) ELSE WShr1(crc)

\* n rounds of the inner loop (a function, so that each round is evaluated
\* before the next one starts).
Words == (0..65535) \X (0..65535)
crcRounds[crc \in Words, n \in 0..8] ==
    IF n = 0 THEN crc ELSE crcRounds[crcShift(crc), n - 1]

crcBits(crc, n) == crcRounds[crc, n]

RECURSIVE crcLoop(_, _, _)
crcLoop(data, i, crc) ==
    IF i > Len(data) THEN crc
    ELSE crcLoop(data, i + 1, crcBits(WXor(crc, <<0, data[i]>>), 8))

crc32(data) == WNot(crcLoop(data, 1, ONES))

\* ------------------------------------------------------------------------
\* CRC32, producer side (stream.js:102-117): table driven.
\* ------------------------------------------------------------------------
CRC_TABLE(i) == crcBits(<<0, i>>, 8)

RECURSIVE crcLoopJs(_, _, _)
crcLoopJs(buffer, i, crc) ==
    IF i > Len(buffer) THEN crc
    ELSE crcLoopJs(buffer, i + 1,
                   WXor(WShr8(crc), CRC_TABLE(BitXor(crc[2], buffer[i]) % 256)))

\* A checksum without the final complement.
crc32JsRaw(buffer) == crcLoopJs(buffer, 1, ONES)

\* stream.js:116: return (crc ^ -1) >>> 0.
crc32Js(buffer) == WXor(crcLoopJs(buffer, 1, ONES), ONES)

\* ------------------------------------------------------------------------
\* packBits (stream.js:120-149).  Indices i, runLen, litLen are the code's
\* 0-based values; buffer[i] of the code is buffer[i + 1] here.
\* ------------------------------------------------------------------------
\* while (i + runLen < buffer.length && runLen < 128 && buffer[i] === buffer[i + runLen])
RunContinues(buffer, i, runLen) ==
    /\ i + runLen < Len(buffer)
    /\ runLen < MaxSegment
    /\ buffer[i + 1] = buffer[i + runLen + 1]

\* The value of runLen when the inner loop of stream.js:124-127 exits: the
\* first runLen >= 1 at which the loop condition fails.
runLenLoop(buffer, i) ==
    CHOOSE runLen \in 1..MaxSegment :
        /\ ~RunContinues(buffer, i, runLen)
        /\ \A k \in 1..(runLen - 1) : RunContinues(buffer, i, k)

\* Loop condition and look-ahead break of stream.js:135-140.
LitContinues(buffer, i, litLen) ==
    /\ i + litLen < Len(buffer)
    /\ litLen < MaxSegment
    /\ ~(/\ i + litLen + 2 < Len(buffer)
         /\ buffer[i + litLen + 1] = buffer[i + litLen + 2]
         /\ buffer[i + litLen + 1] = buffer[i + litLen + 3])

\* The value of litLen when the literal loop of stream.js:134-142 exits.
litLenLoop(buffer, i) ==
    CHOOSE litLen \in 0..MaxSegment :
        /\ ~LitContinues(buffer, i, litLen)
        /\ \A k \in 0..(litLen - 1) : LitContinues(buffer, i, k)

\* A repeat header that counts the copies after the first.
RunHeaderShort(runLen) == 256 - runLen

\* stream.js:130: result.push(257 - runLen).
RunHeader(runLen) == 257 - runLen

\* stream.js:144: result.push(litLen - 1), stored as a byte.
LitHeader(litLen) == (litLen - 1) % 256

RECURSIVE packLoop(_, _, _)
packLoop(buffer, i, result) ==
    IF i < Len(buffer)
    THEN LET runLen == runLenLoop(buffer, i) IN
         IF runLen > 1
         THEN packLoop(buffer, i + runLen, result \o <<RunHeader(runLen), buffer[i + 1]>>)
         ELSE LET litLen == litLenLoop(buffer, i) IN
              packLoop(buffer, i + litLen,
                       result \o <<LitHeader(litLen)>> \o SubSeq(buffer, i + 1, i + litLen))
    ELSE result

packBits(buffer) == packLoop(buffer, 0, <<>>)

\* ------------------------------------------------------------------------
\* unpackBits (main.cpp:35-56).  The decoder state carries, next to the
\* code's i, j and the bytes written to output, the highest input index
\* read plus one (rd), the highest output index written plus one (wr), the
\* input index of the control byte of the segment last examined (seg) and
\* whether the loop was left through a break (brk).
\* ------------------------------------------------------------------------
Int8(b) == IF b >= 128 THEN b - 256 ELSE b

\* input[k] for a 0-based k; a read outside the buffer yields some byte.
InputAt(input, k) == IF k < Len(input) THEN input[k + 1] ELSE 0

\* memset(&output[j], val, count)
Repeat(val, count) == [k \in 1..count |-> val]

\* memcpy(&output[j], &input[i], count)
CopyFrom(input, i, count) == [k \in 1..count |-> InputAt(input, i + k - 1)]

\* A literal guard that looks at the output bound only.
LiteralFitsOutput(j, i, count, inputLen, maxOutputLen) ==
    ~(j + count > maxOutputLen)

\* main.cpp:43: if (j + count > maxOutputLen || i + count > inputLen) break;
LiteralFits(j, i, count, inputLen, maxOutputLen) ==
    ~(j + count > maxOutputLen \/ i + count > inputLen)

\* main.cpp:49: if (j + count > maxOutputLen || i >= inputLen) break;
RepeatFits(j, i, count, inputLen, maxOutputLen) ==
    ~(j + count > maxOutputLen \/ i >= inputLen)

Bytes == 0..255
DecoderStates ==
    [i : Nat, j : Nat, out : Seq(Bytes), rd : Nat, wr : Nat, seg : Nat, brk : BOOLEAN]

\* The while loop of main.cpp:38-54 from decoder state s on (a function, so
\* that each iteration is evaluated before the next one starts).
unpackLoop[input \in Seq(Bytes), maxOutputLen \in Nat, s \in DecoderStates] ==
    IF s.i < Len(input) /\ s.j < maxOutputLen
    THEN LET n  == Int8(InputAt(input, s.i))
             i1 == s.i + 1
             t  == [s EXCEPT !.i = i1, !.rd = Max(s.rd, i1), !.seg = s.i]
         IN  IF n = -128 THEN unpackLoop[input, maxOutputLen, t]
             ELSE IF n >= 0
             THEN LET count == n + 1 IN
                  IF LiteralFits(s.j, i1, count, Len(input), maxOutputLen)
                  THEN unpackLoop[input, maxOutputLen,
                         [t EXCEPT !.i = i1 + count, !.j = s.j + count,
                                   !.out = s.out \o CopyFrom(input, i1, count),
                                   !.rd = Max(t.rd, i1 + count),
                                   !.wr = Max(s.wr, s.j + count)]]
                  ELSE [t EXCEPT !.brk = TRUE]
             ELSE LET count == 1 - n IN
                  IF RepeatFits(s.j, i1, count, Len(input), maxOutputLen)
                  THEN unpackLoop[input, maxOutputLen,
                         [t EXCEPT !.i = i1 + 1, !.j = s.j + count,
                                   !.out = s.out \o Repeat(InputAt(input, i1), count),
                                   !.rd = Max(t.rd, i1 + 1),
                                   !.wr = Max(s.wr, s.j + count)]]
                  ELSE [t EXCEPT !.brk = TRUE]
    ELSE s

NoDecode == [i |-> 0, j |-> 0, out |-> <<>>, rd |-> 0, wr |-> 0, seg |-> 0, brk |-> FALSE]

unpackBits(input, maxOutputLen) == unpackLoop[input, maxOutputLen, NoDecode]


\* ------------------------------------------------------------------------
\* State.
\* ------------------------------------------------------------------------
VARIABLES
    \* codec on its own
    cStage,     \* "idle" | "input" | "packed" | "roundtrip" | "truncated" | "decoded"
    cBuf,       \* the byte buffer under test
    cPacked,    \* packBits(cBuf)
    cMax,       \* maxOutputLen handed to unpackBits
    cDec,       \* decoder state returned by unpackBits
    \* producer (stream.js)
    COMPRESSION_ENABLED,    \* configuration, fixed at start
    video,                  \* the capture source's byte stream, one loop of it
    srcPos,                 \* where in its loop the capture source stands
    dataEvents,             \* 'data' events of the capture source so far
    portOpen,               \* the serial port's 'open' event has run
    previousFrameBuffer,    \* <<>> stands for null
    frameCount,
    isMcuReady,
    videoBuffer,
    ackTimeout,             \* 0 stands for null, otherwise the last timer handle
    timers,                 \* handles of the timers still pending
    \* serial link
    toMcu,                  \* packets on their way to the consumer
    toHost,                 \* status bytes on their way to the producer
    \* consumer (main.cpp)
    booted,                 \* setup() has returned
    currentFrame,
    \* history
    rx,                     \* the last status byte the producer has handled, <<>> if none
    last,                   \* the last call of onPacketReceived
    intactFrom,             \* the producer's frames from this number up to the last
                            \* one handled were all handled, in order and accepted
                            \* (0: the last one was not)
    outstanding             \* frames emitted, not yet answered nor timed out

codecVars == <<cStage, cBuf, cPacked, cMax, cDec>>
producerVars == <<COMPRESSION_ENABLED, video, srcPos, dataEvents, portOpen, previousFrameBuffer,
                  frameCount, isMcuReady, videoBuffer, ackTimeout, timers, outstanding, rx>>
consumerVars == <<booted, currentFrame, last, intactFrom>>
linkVars == <<toMcu, toHost>>

vars == <<codecVars, producerVars, consumerVars, linkVars>>

\* ------------------------------------------------------------------------
\* Codec inputs.
\* ------------------------------------------------------------------------
RunValues == {0, 1, 255}
RunLengths == {1, 2, 3, 128, 129}

RECURSIVE RunBuffers(_)
RunBuffers(n) ==
    IF n = 0 THEN {<<>>}
    ELSE LET shorter == RunBuffers(n - 1) IN
         shorter \cup {b \o Repeat(v, l) : b \in shorter, v \in RunValues, l \in RunLengths}

DistinctBuffers == {[k \in 1..n |-> (k - 1) % 256] : n \in {3, 128, 129, 130}}

\* Bytes that matter as control bytes: short and longest literal, the no-op,
\* longest and shortest repeat.
CtrlBytes == {0, 1, 2, 127, 128, 129, 254, 255}
ByteStrings == UNION {[1..n -> CtrlBytes] : n \in 0..MaxLen}

CodecInputs == RunBuffers(MaxRuns) \cup DistinctBuffers \cup ByteStrings

OutBounds == {0, 1, 2, 3, 127, 128, 129}

\* ------------------------------------------------------------------------
\* Packets and status bytes on the link.
\*
\* A packet is what PacketSerial hands to onPacketReceived after COBS
\* decoding: nothing at all (kind "empty", size 0), bytes that do not pass
\* Futaba::VerifyFrameBuffer (kind "bytes", e.g. the ping 0xFF), or a buffer
\* that passes it (kind "frame") with the fields of the Frame table.  The
\* rest is history: seq is the number of the producer's frame the packet
\* carries (0 if none), raw that frame and ref the producer's reference
\* buffer when it built the message (<<>> if none).
\* ------------------------------------------------------------------------
Message(kind, type, hasData, data, crc, seq, raw, ref) ==
    [kind |-> kind, type |-> type, hasData |-> hasData, data |-> data,
     crc32 |-> crc, seq |-> seq, raw |-> raw, ref |-> ref]

\* A packet that is not the producer's.
Packet(kind, type, hasData, data, crc, seq) ==
    Message(kind, type, hasData, data, crc, seq, <<>>, <<>>)

EmptyPacket == Packet("empty", 0, FALSE, <<>>, <<0, 0>>, 0)
pingPacket == Packet("bytes", 0, FALSE, <<255>>, <<0, 0>>, 0)

\* A status byte; re is history: the frame whose packet it answers, 0 if none.
Status(code, re) == [code |-> code, re |-> re]

\* ------------------------------------------------------------------------
\* Consumer: onPacketReceived (main.cpp:58-106).
\* ------------------------------------------------------------------------
ZeroFrame == [k \in 1..FRAME_SIZE_BYTES |-> 0]

\* flatbuffers::Verifier / Futaba::VerifyFrameBuffer (main.cpp:61-62): its
\* verdict is a property of the packet.
VerifyFrameBuffer(pkt) == pkt.kind = "frame"

\* A guard of the Full copy that refuses a payload of exactly one frame.
FullFitsBelow(dataLen) == dataLen < FRAME_SIZE_BYTES

\* main.cpp:89: the guard of the Full copy.
FullFits(dataLen) == dataLen <= FRAME_SIZE_BYTES

\* main.cpp:88-91: memcpy(currentFrame, dataPtr, dataLen) when it fits.
ApplyFull(frame, data) ==
    IF FullFits(Len(data))
    THEN [k \in 1..FRAME_SIZE_BYTES |-> IF k <= Len(data) THEN data[k] ELSE frame[k]]
    ELSE frame

\* main.cpp:95: the guard of the XOR loop.
DeltaComplete(decodedLen) == decodedLen = FRAME_SIZE_BYTES

\* A Delta branch that XORs in whatever was decoded, complete or not.
ApplyDeltaPartial(frame, data) ==
    LET dec == unpackBits(data, FRAME_SIZE_BYTES) IN
    [k \in 1..FRAME_SIZE_BYTES |->
        IF k <= dec.j THEN BitXor(frame[k], dec.out[k]) ELSE frame[k]]

\* main.cpp:92-100: decode into deltaBuffer, XOR in when the length is exact.
ApplyDelta(frame, data) ==
    LET dec == unpackBits(data, FRAME_SIZE_BYTES) IN
    IF DeltaComplete(dec.j)
    THEN [k \in 1..FRAME_SIZE_BYTES |-> BitXor(frame[k], dec.out[k])]
    ELSE frame

\* Bytes the capture source delivers, the raw frames cut from them, and what
\* processFrame can put into a message: a raw frame or a packed delta.
SourceBytes == {0, 255}
RawFrames == [1..FRAME_SIZE_BYTES -> SourceBytes]
ProducerPayloads == RawFrames \cup {packBits(d) : d \in RawFrames}

\* Payloads an arbitrary sender may put into a frame.
PayloadBytes == {0, 254, 255}
Payloads == UNION {[1..n -> PayloadBytes] : n \in 0..(FRAME_SIZE_BYTES + 1)}

\* crc32 of main.cpp, tabulated over the payloads that occur (@@ has the
\* table built once instead of at every use).
CrcDomain == Payloads \cup ProducerPayloads
calculatedCrc == [data \in CrcDomain |-> crc32(data)] @@ <<>>

\* A checksum comparison that accepts everything.
CrcMatchesAny(data, receivedCrc) == TRUE

\* main.cpp:81-82: the checksum comparison.
CrcMatches(data, receivedCrc) == calculatedCrc[data] = receivedCrc

\* A handler that compares the checksum before it looks for the data field.
RejectStatusCrcFirst(pkt) ==
    IF ~VerifyFrameBuffer(pkt) THEN STATUS_ERR_VERIFY
    ELSE IF ~CrcMatches(pkt.data, pkt.crc32) THEN STATUS_ERR_VERIFY
    ELSE IF ~pkt.hasData THEN STATUS_ERR_NODATA
    ELSE 0

\* The status the handler sends for a non-empty packet that is not applied,
\* or 0 when the packet goes on to be applied (main.cpp:61-86).
RejectStatus(pkt) ==
    IF ~VerifyFrameBuffer(pkt) THEN STATUS_ERR_VERIFY
    ELSE IF ~pkt.hasData THEN STATUS_ERR_NODATA
    ELSE IF ~CrcMatches(pkt.data, pkt.crc32) THEN STATUS_ERR_VERIFY
    ELSE 0

\* A handler that reports a Delta it could not decode to a whole frame.
AppliedStatusStrict(pkt) ==
    IF pkt.type = FrameType_Delta
          /\ ~DeltaComplete(unpackBits(pkt.data, FRAME_SIZE_BYTES).j)
    THEN STATUS_ERR_OTHER
    ELSE STATUS_OK

\* main.cpp:105: sendStatus(STATUS_OK) ends every call that passed the
\* checks, whatever the branches before it did.
AppliedStatus(pkt) == STATUS_OK

\* A handler that is silent about a packet without a data field.
onPacketReceivedSilent(pkt, frame) ==
    IF pkt.kind = "empty" \/ RejectStatus(pkt) = STATUS_ERR_NODATA
    THEN [frame |-> frame, status |-> <<>>, shown |-> FALSE]
    ELSE IF RejectStatus(pkt) # 0
    THEN [frame |-> frame, status |-> <<RejectStatus(pkt)>>, shown |-> FALSE]
    ELSE [frame |-> IF pkt.type = FrameType_Full THEN ApplyFull(frame, pkt.data)
                    ELSE IF pkt.type = FrameType_Delta THEN ApplyDelta(frame, pkt.data)
                    ELSE frame,
          status |-> <<AppliedStatus(pkt)>>,
          shown |-> TRUE]

\* The whole handler: the new currentFrame, the status bytes written to
\* Serial, and whether vfd.displayGraphicImage was called.
onPacketReceived(pkt, frame) ==
    IF pkt.kind = "empty"
    THEN [frame |-> frame, status |-> <<>>, shown |-> FALSE]
    ELSE IF RejectStatus(pkt) # 0
    THEN [frame |-> frame, status |-> <<RejectStatus(pkt)>>, shown |-> FALSE]
    ELSE [frame |-> IF pkt.type = FrameType_Full THEN ApplyFull(frame, pkt.data)
                    ELSE IF pkt.type = FrameType_Delta THEN ApplyDelta(frame, pkt.data)
                    ELSE frame,
          status |-> <<AppliedStatus(pkt)>>,
          shown |-> TRUE]

NoCall == [pkt |-> EmptyPacket, before |-> ZeroFrame, status |-> <<>>, shown |-> FALSE,
           calls |-> 0]

\* Capacity of each direction of the link; what does not fit is lost.
MaxWire == 2

Push(wire, x) == IF Len(wire) < MaxWire THEN Append(wire, x) ELSE wire

\* setup() (main.cpp:108-127): ends with sendStatus(STATUS_OK).
McuSetup ==
    /\ ~booted
    /\ booted' = TRUE
    /\ toHost' = Push(toHost, Status(STATUS_OK, 0))
    /\ UNCHANGED <<currentFrame, last, intactFrom, toMcu, producerVars, codecVars>>

\* onPacketReceived called on pkt: currentFrame, the status byte on the
\* wire and the record of the call.
McuHandle(pkt) ==
    LET r == onPacketReceived(pkt, currentFrame) IN
    /\ currentFrame' = r.frame
    /\ last' = [pkt |-> pkt, before |-> currentFrame, status |-> r.status,
                shown |-> r.shown, calls |-> 1]
    /\ toHost' = IF r.status = <<>> THEN toHost
                 ELSE Push(toHost, Status(r.status[1], pkt.seq))
    /\ intactFrom' = IF pkt.seq = 0 THEN intactFrom
                     ELSE IF r.status # <<STATUS_OK>> THEN 0
                     ELSE IF intactFrom > 0 /\ pkt.seq = last.pkt.seq + 1 THEN intactFrom
                     ELSE pkt.seq

\* loop() (main.cpp:129-131): packetSerial.update() hands the next packet
\* to onPacketReceived, which runs to completion.
McuLoop ==
    /\ booted
    /\ toMcu # <<>>
    /\ McuHandle(Head(toMcu))
    /\ toMcu' = Tail(toMcu)
    /\ UNCHANGED <<booted, producerVars, codecVars>>

\* The link loses the status byte at its head.
StatusLost ==
    /\ toHost # <<>>
    /\ toHost' = Tail(toHost)
    /\ UNCHANGED <<toMcu, producerVars, consumerVars, codecVars>>

\* ------------------------------------------------------------------------
\* Producer (stream.js).  The callbacks of the Node.js event loop run to
\* completion; each is one action.  The functions they call are operators
\* on the record p of the producer's variables and its side of the link.
\* ------------------------------------------------------------------------

\* 'data' events of the capture source before it stops, and the same where
\* the callbacks are scheduled fairly.
MaxChunks == 3
MaxFairChunks == 2

\* Numbers the frames can have there: a data event leaves at most one more
\* whole frame in the queue.
FrameNumbers == 1..MaxFairChunks

\* crc32 of stream.js, tabulated over what processFrame sends.
crc == [finalBuffer \in ProducerPayloads |-> crc32Js(finalBuffer)] @@ <<>>

\* A delta condition without the keyframe counter.
TryDeltaNoKeyframe(enabled, prev, count) == enabled /\ prev # <<>>

\* stream.js:185: the condition under which a delta is computed at all.
TryDelta(enabled, prev, count) ==
    enabled /\ prev # <<>> /\ (count % KEYFRAME_INTERVAL # 0)

\* A delta buffer that carries the frame itself.
deltaBufferPlain(frameBuffer, prev) == frameBuffer

\* stream.js:186-191: deltaBuffer[i] = frameBuffer[i] ^ previousFrameBuffer[i].
deltaBuffer(frameBuffer, prev) ==
    [k \in 1..FRAME_SIZE_BYTES |-> BitXor(frameBuffer[k], prev[k])]

\* A producer that sends the delta whatever its packed length.
DeltaPaysAlways(compressedDelta) == TRUE

\* stream.js:194: the compressed delta is sent only when it is shorter.
DeltaPays(compressedDelta) == Len(compressedDelta) < FRAME_SIZE_BYTES

\* What the producer's functions read and write: its variables and its side
\* of the link.
ProducerStates ==
    [previousFrameBuffer : Seq(Bytes), frameCount : Nat, isMcuReady : BOOLEAN,
     videoBuffer : Seq(Bytes), ackTimeout : Nat, timers : SUBSET Nat,
     toMcu : Seq([kind : STRING, type : Nat, hasData : BOOLEAN, data : Seq(Bytes),
                  crc32 : Words, seq : Nat, raw : Seq(Bytes), ref : Seq(Bytes)]),
     outstanding : SUBSET Nat]

\* processFrame (stream.js:180-221) with serialPort open.  (This and the two
\* functions below are functions, so that their argument is evaluated once.)
processFrame[p \in ProducerStates, frameBuffer \in Seq(Bytes)] ==
    LET count == p.frameCount + 1
        compressedDelta ==
            IF TryDelta(COMPRESSION_ENABLED, p.previousFrameBuffer, count)
            THEN packBits(deltaBuffer(frameBuffer, p.previousFrameBuffer))
            ELSE <<>>
        asDelta == /\ TryDelta(COMPRESSION_ENABLED, p.previousFrameBuffer, count)
                   /\ DeltaPays(compressedDelta)
        type == IF asDelta THEN FrameType_Delta ELSE FrameType_Full
        finalBuffer == IF asDelta THEN compressedDelta ELSE frameBuffer
        msg == Message("frame", type, TRUE, finalBuffer, crc[finalBuffer], count,
                       frameBuffer, p.previousFrameBuffer)
    IN  [p EXCEPT !.frameCount = count,
                  !.previousFrameBuffer = frameBuffer,
                  !.toMcu = Push(p.toMcu, msg)]

\* A clearTimeout that cancels nothing.
clearTimeoutNothing(pending, handle) == pending

\* clearTimeout(ackTimeout): a pending timer is removed, a spent handle or
\* null changes nothing.
clearTimeout(pending, handle) == pending \ {handle}

\* A setTimeout that arms nothing.
setTimeoutNever(pending, handle) == pending

\* setTimeout(..., 200): the new timer is pending.
setTimeout(pending, handle) == pending \cup {handle}

\* A queue that keeps the frame it hands out.
DequeueNothing(buffer) == buffer

\* stream.js:171: videoBuffer = videoBuffer.slice(FRAME_SIZE_BYTES).
Dequeue(buffer) == SubSeq(buffer, FRAME_SIZE_BYTES + 1, Len(buffer))

\* stream.js:173: the gate closes when a frame is sent.
GateAfterSend == FALSE

\* trySendNextFrame (stream.js:166-178).  The handle of the timer armed for
\* a frame is the frame's number.
trySendNextFrame[p \in ProducerStates] ==
    IF ~p.isMcuReady THEN p
    ELSE IF Len(p.videoBuffer) < FRAME_SIZE_BYTES THEN p
    ELSE LET frameBuffer == SubSeq(p.videoBuffer, 1, FRAME_SIZE_BYTES)
             handle == p.frameCount + 1
             q == [p EXCEPT !.videoBuffer = Dequeue(p.videoBuffer),
                            !.isMcuReady = GateAfterSend,
                            !.timers = setTimeout(clearTimeout(p.timers, p.ackTimeout), handle),
                            !.ackTimeout = handle,
                            !.outstanding = p.outstanding \cup {handle}]
         IN  processFrame[q, frameBuffer]

\* stream.js:161: the gate opens when a status byte or a timeout is handled.
GateAfterAck == TRUE

\* ackReceived (stream.js:160-164).
ackReceived[p \in ProducerStates] ==
    trySendNextFrame[[p EXCEPT !.isMcuReady = GateAfterAck,
                               !.timers = clearTimeout(p.timers, p.ackTimeout)]]

\* The producer's variables as a record, and back.
Producer ==
    [previousFrameBuffer |-> previousFrameBuffer, frameCount |-> frameCount,
     isMcuReady |-> isMcuReady, videoBuffer |-> videoBuffer, ackTimeout |-> ackTimeout,
     timers |-> timers, toMcu |-> toMcu, outstanding |-> outstanding]

ProducerBecomes(result) ==
    \E p \in {result} :
    /\ previousFrameBuffer' = p.previousFrameBuffer
    /\ frameCount' = p.frameCount
    /\ isMcuReady' = p.isMcuReady
    /\ videoBuffer' = p.videoBuffer
    /\ ackTimeout' = p.ackTimeout
    /\ timers' = p.timers
    /\ toMcu' = p.toMcu
    /\ outstanding' = p.outstanding

\* serialPort.on('open') (stream.js:305-316): the ping goes out and the
\* capture process is started.
PortOpen ==
    /\ ~portOpen
    /\ portOpen' = TRUE
    /\ toMcu' = Push(toMcu, pingPacket)
    /\ UNCHANGED <<COMPRESSION_ENABLED, video, srcPos, dataEvents, previousFrameBuffer,
                   frameCount, isMcuReady, videoBuffer, ackTimeout, timers,
                   outstanding, rx, toHost, consumerVars, codecVars>>

\* The next n bytes of the capture source's stream, which loops.
Chunk(n) == [k \in 1..n |-> video[((srcPos + k - 1) % Len(video)) + 1]]

\* Sizes of the chunks the capture source delivers: a frame, or more than
\* the queue may hold.
ChunkSizes == {FRAME_SIZE_BYTES, QueueFrames * FRAME_SIZE_BYTES + 1}

\* stream.js:292: beyond five frames only the last frame's worth is kept.
Trim(buffer) ==
    IF Len(buffer) > FRAME_SIZE_BYTES * QueueFrames
    THEN SubSeq(buffer, Len(buffer) - FRAME_SIZE_BYTES + 1, Len(buffer))
    ELSE buffer

\* The callback of ffmpeg.stdout.on('data') (stream.js:290-294).
OnSourceData ==
    /\ portOpen
    /\ dataEvents' = dataEvents + 1
    /\ \E n \in ChunkSizes :
          /\ srcPos' = (srcPos + n) % Len(video)
          /\ ProducerBecomes(trySendNextFrame[
                [Producer EXCEPT !.videoBuffer = Trim(videoBuffer \o Chunk(n))]])
    /\ UNCHANGED <<COMPRESSION_ENABLED, video, portOpen, rx, toHost, consumerVars, codecVars>>

\* A 'data' event of the capture source, which has not stopped yet.
SourceData ==
    /\ dataEvents < MaxChunks
    /\ OnSourceData

SourceDataFair ==
    /\ dataEvents < MaxFairChunks
    /\ OnSourceData

\* A handler that lets only the success status through.
StatusCodesSuccessOnly == {STATUS_OK}

\* stream.js:153-156: the byte values that call ackReceived.
StatusCodes == {STATUS_OK, STATUS_ERR_VERIFY, STATUS_ERR_NODATA, STATUS_ERR_OTHER}

\* serialPort.on('data') (stream.js:151-158), one byte of the chunk: the
\* four status values call ackReceived, any other byte is skipped.  A status
\* byte that answers a frame settles that frame.
SerialData ==
    /\ portOpen
    /\ toHost # <<>>
    /\ LET byte == Head(toHost)
           p == [Producer EXCEPT !.outstanding = outstanding \ {byte.re}]
       IN  /\ ProducerBecomes(IF byte.code \in StatusCodes THEN ackReceived[p] ELSE p)
           /\ rx' = IF byte.code \in StatusCodes THEN <<byte.code>> ELSE rx
    /\ toHost' = Tail(toHost)
    /\ UNCHANGED <<COMPRESSION_ENABLED, video, srcPos, dataEvents, portOpen, consumerVars, codecVars>>

\* A timer whose expiry calls nothing.
TimerFireIdle ==
    /\ \E handle \in timers : timers' = timers \ {handle}
    /\ UNCHANGED <<COMPRESSION_ENABLED, video, srcPos, dataEvents, portOpen,
                   previousFrameBuffer, frameCount, isMcuReady, videoBuffer, ackTimeout,
                   outstanding, rx, linkVars, consumerVars, codecVars>>

\* The callback of setTimeout (stream.js:175) for a pending timer; its
\* expiry settles the frame it was armed for.
TimerFire ==
    /\ \E handle \in timers :
          ProducerBecomes(ackReceived[
             [Producer EXCEPT !.timers = timers \ {handle},
                              !.outstanding = outstanding \ {handle}]])
    /\ UNCHANGED <<COMPRESSION_ENABLED, video, srcPos, dataEvents, portOpen, rx, toHost,
                   consumerVars, codecVars>>

\* The link loses the packet at its head.
PacketLost ==
    /\ toMcu # <<>>
    /\ toMcu' = Tail(toMcu)
    /\ UNCHANGED <<COMPRESSION_ENABLED, video, srcPos, dataEvents, portOpen, previousFrameBuffer,
                   frameCount, isMcuReady, videoBuffer, ackTimeout, timers,
                   outstanding, rx, toHost, consumerVars, codecVars>>

\* The link damages the message at its head: its checksum field arrives
\* with one bit flipped.
PacketDamaged ==
    /\ toMcu # <<>>
    /\ Head(toMcu).kind = "frame"
    /\ Head(toMcu).crc32 = calculatedCrc[Head(toMcu).data]
    /\ toMcu' = <<[Head(toMcu) EXCEPT !.crc32 = WXor(@, <<0, 1>>)]>> \o Tail(toMcu)
    /\ UNCHANGED <<COMPRESSION_ENABLED, video, srcPos, dataEvents, portOpen, previousFrameBuffer,
                   frameCount, isMcuReady, videoBuffer, ackTimeout, timers,
                   outstanding, rx, toHost, consumerVars, codecVars>>

\* ------------------------------------------------------------------------
\* Arbitrary packets for the consumer on its own.
\* ------------------------------------------------------------------------
\* A checksum one bit away from the right one.
WrongCrc(data) == WXor(calculatedCrc[data], <<0, 1>>)

FrameTypes == {FrameType_Full, FrameType_Delta, 2}

ForgedPackets ==
    {EmptyPacket, pingPacket}
    \cup {Packet("frame", t, TRUE, d, calculatedCrc[d], 0) : t \in FrameTypes, d \in Payloads}
    \cup {Packet("frame", t, TRUE, d, WrongCrc(d), 0) : t \in FrameTypes, d \in Payloads}
    \cup {Packet("frame", t, FALSE, <<>>, c, 0) : t \in FrameTypes, c \in {<<0, 0>>, <<0, 1>>}}

\* loop() with an arbitrary packet arriving on the idle link.
McuLoopForged ==
    /\ booted
    /\ toMcu = <<>>
    /\ toHost = <<>>
    /\ last.calls = 0
    /\ \E pkt \in ForgedPackets : McuHandle(pkt)
    /\ UNCHANGED <<toMcu, booted, producerVars, codecVars>>

\* The handler has returned and loop() waits for the next packet; the
\* record of the call is dropped.
McuReturn ==
    /\ last.calls = 1
    /\ last' = NoCall
    /\ UNCHANGED <<booted, currentFrame, intactFrom, linkVars, producerVars, codecVars>>

\* ------------------------------------------------------------------------
\* Initial states.
\* ------------------------------------------------------------------------
\* One loop of the capture source: a dark frame and a fully lit one.  The
\* frames the producer cuts from it are other than these two once a chunk
\* has been trimmed.
Dark == [k \in 1..FRAME_SIZE_BYTES |-> 0]
Lit == [k \in 1..FRAME_SIZE_BYTES |-> 255]
Videos == {Dark \o Lit}

\* A producer that starts with the gate open.
McuReadyAtOnce == TRUE

\* stream.js:97: let isMcuReady = false.
McuReadyAtStart == FALSE

ProducerStart ==
    /\ srcPos = 0
    /\ dataEvents = 0
    /\ portOpen = FALSE
    /\ previousFrameBuffer = <<>>
    /\ frameCount = 0
    /\ isMcuReady = McuReadyAtStart
    /\ videoBuffer = <<>>
    /\ ackTimeout = 0
    /\ timers = {}
    /\ outstanding = {}
    /\ rx = <<>>

\* main.cpp:11: currentFrame[560] = {0}.
ConsumerStart ==
    /\ booted = FALSE
    /\ currentFrame = ZeroFrame
    /\ last = NoCall
    /\ intactFrom = 0

LinkStart == toMcu = <<>> /\ toHost = <<>>

\* No producer: the consumer and the link alone.
ProducerIdle ==
    /\ COMPRESSION_ENABLED = FALSE
    /\ video = <<>>
    /\ ProducerStart


CodecIdle ==
    /\ cStage = "idle" /\ cBuf = <<>> /\ cPacked = <<>> /\ cMax = 0 /\ cDec = NoDecode

CodecStart ==
    /\ cStage = "input"
    /\ cBuf \in CodecInputs
    /\ cPacked = <<>>
    /\ cMax = 0
    /\ cDec = NoDecode

\* packBits(buffer) on the producer.
CodecPack ==
    /\ cStage = "input"
    /\ cPacked' = packBits(cBuf)
    /\ cStage' = "packed"
    /\ UNCHANGED <<cBuf, cMax, cDec, producerVars, consumerVars, linkVars>>

\* unpackBits on the encoder's output, output bound at least |cBuf|.
CodecUnpack ==
    /\ cStage = "packed"
    /\ \E m \in {Len(cBuf), Len(cBuf) + 1, Len(cBuf) + MaxSegment} :
          /\ cMax' = m
          /\ cDec' = unpackBits(cPacked, m)
    /\ cStage' = "roundtrip"
    /\ UNCHANGED <<cBuf, cPacked, producerVars, consumerVars, linkVars>>

\* unpackBits on the encoder's output, output bound below |cBuf|.
CodecUnpackShort ==
    /\ cStage = "packed"
    /\ Len(cBuf) > 0
    /\ \E m \in {0, Len(cBuf) \div 2, Len(cBuf) - 1} :
          /\ cMax' = m
          /\ cDec' = unpackBits(cPacked, m)
    /\ cStage' = "truncated"
    /\ UNCHANGED <<cBuf, cPacked, producerVars, consumerVars, linkVars>>

\* unpackBits on an arbitrary byte string taken as compressed input.
CodecDecodeRaw ==
    /\ cStage = "input"
    /\ Len(cBuf) <= MaxLen
    /\ \E m \in OutBounds :
          /\ cMax' = m
          /\ cDec' = unpackBits(cBuf, m)
    /\ cStage' = "decoded"
    /\ UNCHANGED <<cBuf, cPacked, producerVars, consumerVars, linkVars>>

InitCodec == CodecStart /\ ProducerIdle /\ ConsumerStart /\ LinkStart

NextCodec == CodecPack \/ CodecUnpack \/ CodecUnpackShort \/ CodecDecodeRaw

CodecSpec == InitCodec /\ [][NextCodec]_vars


\* ------------------------------------------------------------------------
\* Producer, link and consumer.
\* ------------------------------------------------------------------------
Init ==
    /\ CodecIdle
    /\ COMPRESSION_ENABLED \in BOOLEAN
    /\ video \in Videos
    /\ ProducerStart
    /\ ConsumerStart
    /\ LinkStart

Next ==
    \/ PortOpen
    \/ SourceData
    \/ SerialData
    \/ TimerFire
    \/ McuSetup
    \/ McuLoop
    \/ PacketLost
    \/ PacketDamaged
    \/ StatusLost

Spec == Init /\ [][Next]_vars

\* The event loop runs a pending callback, and the consumer's loop() runs;
\* the link and the capture source promise nothing.
NextFair ==
    \/ PortOpen
    \/ SourceDataFair
    \/ SerialData
    \/ TimerFire
    \/ McuSetup
    \/ McuLoop
    \/ PacketLost
    \/ PacketDamaged
    \/ StatusLost

FairSpec ==
    /\ Init
    /\ [][NextFair]_vars
    /\ WF_vars(PortOpen)
    /\ WF_vars(SerialData)
    /\ WF_vars(TimerFire)
    /\ WF_vars(McuSetup)
    /\ WF_vars(McuLoop)

\* ------------------------------------------------------------------------
\* The producer fed with arbitrary bytes: no consumer, every status value
\* and a byte that is none arrive at any time.
\* ------------------------------------------------------------------------
ArrivingBytes == {0, STATUS_OK, STATUS_ERR_VERIFY, STATUS_ERR_NODATA, STATUS_ERR_OTHER}

\* A byte arrives on the idle link.
ByteArrives ==
    /\ toHost = <<>>
    /\ \E code \in ArrivingBytes : toHost' = <<Status(code, 0)>>
    /\ UNCHANGED <<toMcu, producerVars, consumerVars, codecVars>>

NextProducer ==
    \/ PortOpen
    \/ SourceData
    \/ ByteArrives
    \/ SerialData
    \/ TimerFire
    \/ PacketLost

ProducerSpec == Init /\ [][NextProducer]_vars

\* ------------------------------------------------------------------------
\* The consumer fed with arbitrary packets.
\* ------------------------------------------------------------------------
InitConsumer == CodecIdle /\ ProducerIdle /\ ConsumerStart /\ LinkStart

NextConsumer == McuSetup \/ McuLoopForged \/ McuReturn \/ StatusLost

ConsumerSpec == InitConsumer /\ [][NextConsumer]_vars

\* The input the decoder ran on, once it has run.
DecoderRan == cStage \in {"roundtrip", "truncated", "decoded"}
DecoderInput == IF cStage = "decoded" THEN cBuf ELSE cPacked

\* C8: decoding packBits(B) with unpackBits and an output bound of at least
\* |B| returns length |B| and reproduces B exactly.
RoundTrip ==
    cStage = "roundtrip" => (cDec.j = Len(cBuf) /\ cDec.out = cBuf)

\* C8 witness: a buffer holding a run of 129 equal bytes next to a run of 128
\* has made the round trip.
RoundTripWitness ==
    /\ cStage = "roundtrip"
    /\ cBuf = Repeat(0, 129) \o Repeat(1, 128)
    /\ cDec.out = cBuf

\* The segment whose control byte is at input[seg] does not fit: it needs
\* more data bytes than the input holds or more room than the output has.
SegmentOverflows(input, seg, j, maxOutputLen) ==
    LET n == Int8(input[seg + 1]) IN
    IF n = -128 THEN FALSE
    ELSE IF n >= 0 THEN (seg + 1 + (n + 1) > Len(input)) \/ (j + n + 1 > maxOutputLen)
    ELSE (seg + 2 > Len(input)) \/ (j + (1 - n) > maxOutputLen)

\* C9: unpackBits never reads an input index >= inputLen, never writes an
\* output index >= maxOutputLen, returns a length <= maxOutputLen, and when
\* it stops before either bound is reached it stopped at a segment that
\* would overflow one of them, leaving the output as it was before it.
DecodeBounds ==
    DecoderRan =>
        /\ cDec.rd <= Len(DecoderInput)
        /\ cDec.wr <= cMax
        /\ cDec.j <= cMax
        /\ Len(cDec.out) = cDec.j
        /\ cDec.brk => /\ cDec.i = cDec.seg + 1
                       /\ SegmentOverflows(DecoderInput, cDec.seg, cDec.j, cMax)
        /\ ~cDec.brk => (cDec.i >= Len(DecoderInput) \/ cDec.j >= cMax)

\* C9 witness: a malformed stream was cut at a segment that does not fit,
\* after an earlier segment had been decoded.
DecodeBoundsWitness ==
    /\ cStage = "decoded"
    /\ cDec.brk
    /\ cDec.j > 0
    /\ cDec.j < cMax
    /\ cDec.i < Len(cBuf)

\* ------------------------------------------------------------------------
\* Claims about the consumer's packet handler.
\* ------------------------------------------------------------------------
Called == last.calls = 1

\* The call's packet, taken apart without the handler's own helpers.
IsFrame(pkt) == pkt.kind = "frame"
BadChecksum(pkt) == IsFrame(pkt) /\ pkt.hasData /\ calculatedCrc[pkt.data] # pkt.crc32
Rejected(pkt) == pkt.kind = "bytes" \/ (IsFrame(pkt) /\ ~pkt.hasData) \/ BadChecksum(pkt)
Accepted(pkt) == IsFrame(pkt) /\ pkt.hasData /\ calculatedCrc[pkt.data] = pkt.crc32

\* C4: a packet that fails structural verification, has no data field or
\* has a CRC32 mismatch leaves currentFrame as it was and the renderer
\* uncalled.
RejectedNeverApplied ==
    (Called /\ Rejected(last.pkt)) => (currentFrame = last.before /\ ~last.shown)

\* C4 witness: a Full frame of the right size, differing from a non-zero
\* currentFrame, was rejected for its checksum.
RejectedNeverAppliedWitness ==
    /\ Called
    /\ BadChecksum(last.pkt)
    /\ last.pkt.type = FrameType_Full
    /\ Len(last.pkt.data) = FRAME_SIZE_BYTES
    /\ last.before # ZeroFrame
    /\ last.pkt.data # last.before

\* C5: for a non-empty packet the handler sends 0xE1 on a failed
\* verification or a checksum mismatch, 0xE2 on an absent data field
\* whatever the checksum field holds, 0xA5 otherwise, and never 0xE3.
StatusMapping ==
    /\ (Called /\ last.pkt.kind # "empty") =>
          last.status = << IF last.pkt.kind = "bytes" \/ BadChecksum(last.pkt)
                              THEN STATUS_ERR_VERIFY
                           ELSE IF ~last.pkt.hasData THEN STATUS_ERR_NODATA
                           ELSE STATUS_OK >>
    /\ last.status # <<STATUS_ERR_OTHER>>
    /\ \A k \in 1..Len(toHost) : toHost[k].code # STATUS_ERR_OTHER

\* C5 witness: a verified packet without data, whose checksum field does not
\* match the empty payload, was answered 0xE2.
StatusMappingWitness ==
    /\ Called
    /\ IsFrame(last.pkt)
    /\ ~last.pkt.hasData
    /\ last.pkt.crc32 # crc32(<<>>)
    /\ last.status = <<STATUS_ERR_NODATA>>

\* C6: an accepted Delta changes currentFrame only when unpackBits returned
\* exactly the frame size, and then by XOR with the decoded bytes; on any
\* other decoded length currentFrame is unchanged.
DeltaOnlyWhenExact ==
    (Called /\ Accepted(last.pkt) /\ last.pkt.type = FrameType_Delta) =>
        LET dec == unpackBits(last.pkt.data, FRAME_SIZE_BYTES) IN
        IF dec.j = FRAME_SIZE_BYTES
        THEN currentFrame = [k \in 1..FRAME_SIZE_BYTES |-> BitXor(last.before[k], dec.out[k])]
        ELSE currentFrame = last.before

\* C6 witness: an accepted Delta whose payload decoded to some bytes, but
\* fewer than a frame, was handled.
DeltaOnlyWhenExactWitness ==
    /\ Called
    /\ Accepted(last.pkt)
    /\ last.pkt.type = FrameType_Delta
    /\ unpackBits(last.pkt.data, FRAME_SIZE_BYTES).j \in 1..(FRAME_SIZE_BYTES - 1)
    /\ unpackBits(last.pkt.data, FRAME_SIZE_BYTES).brk
    /\ last.before # ZeroFrame

\* C7 as stated: after an accepted Full message currentFrame equals the
\* message's payload.
FullReplaces ==
    (Called /\ Accepted(last.pkt) /\ last.pkt.type = FrameType_Full
        /\ last.status = <<STATUS_OK>>)
    => currentFrame = last.pkt.data

\* C7 amended: after an accepted Full message currentFrame equals the
\* payload when the payload is exactly one frame long; a shorter payload
\* replaces only the first bytes, a longer one replaces nothing.
FullReplacesSized ==
    (Called /\ Accepted(last.pkt) /\ last.pkt.type = FrameType_Full) =>
        /\ last.status = <<STATUS_OK>>
        /\ Len(last.pkt.data) = FRAME_SIZE_BYTES => currentFrame = last.pkt.data
        /\ Len(last.pkt.data) < FRAME_SIZE_BYTES =>
              /\ SubSeq(currentFrame, 1, Len(last.pkt.data)) = last.pkt.data
              /\ \A k \in (Len(last.pkt.data) + 1)..FRAME_SIZE_BYTES :
                    currentFrame[k] = last.before[k]
        /\ Len(last.pkt.data) > FRAME_SIZE_BYTES => currentFrame = last.before

\* C7 witness: an accepted Full message of exactly one frame replaced a
\* different, non-zero currentFrame.
FullReplacesWitness ==
    /\ Called
    /\ Accepted(last.pkt)
    /\ last.pkt.type = FrameType_Full
    /\ Len(last.pkt.data) = FRAME_SIZE_BYTES
    /\ last.before # ZeroFrame
    /\ last.before # last.pkt.data
    /\ currentFrame = last.pkt.data

\* ------------------------------------------------------------------------
\* Claims about producer, link and consumer together.
\* ------------------------------------------------------------------------

\* C1: the frames the producer has emitted and for which it has consumed
\* neither their status byte nor their timer's expiry number at most one.
OneOutstanding == Cardinality(outstanding) <= 1

\* A frame was emitted; the producer waits for its status byte.
AwaitingAck(n) == frameCount = n /\ ~isMcuReady
FrameBuffered == Len(videoBuffer) >= FRAME_SIZE_BYTES

\* C2 as stated: whenever the producer waits for a status byte, the first
\* one after the ping included, with a whole frame buffered, a frame is
\* eventually emitted.
WaitingNeverStalls ==
    \A n \in {0} \cup FrameNumbers :
        (portOpen /\ AwaitingAck(n) /\ FrameBuffered) ~> (frameCount > n)

\* C2 amended: whenever the producer waits for the status byte of a frame it
\* has emitted, with a whole frame buffered, the next frame is eventually
\* emitted.
AwaitingAckNeverStalls ==
    \A n \in FrameNumbers :
        (AwaitingAck(n) /\ FrameBuffered) ~> (frameCount > n)

\* C2 witness: a second frame was emitted although the consumer has handled
\* no packet at all and so has sent only its status byte at startup: a timer
\* expiry let the frame out.
AwaitingAckNeverStallsWitness ==
    /\ frameCount = 2
    /\ last = NoCall
    /\ toHost = <<>>
    /\ ~isMcuReady

\* C3: after a frame is emitted the producer is eventually READY again or
\* has emitted the next frame, whether or not a status byte arrives.
TimeoutReturnsToReady ==
    \A n \in FrameNumbers :
        AwaitingAck(n) ~> (isMcuReady \/ frameCount > n)

\* C3 witness: the producer is READY with nothing to send after its second
\* frame, although the consumer has handled no packet at all.
TimeoutReturnsToReadyWitness ==
    /\ frameCount = 2
    /\ last = NoCall
    /\ toHost = <<>>
    /\ isMcuReady
    /\ timers = {}

\* The last packet handled is a Delta message of the producer, as it was
\* sent.
GenuineDelta ==
    /\ Called
    /\ last.pkt.seq > 0
    /\ last.pkt.type = FrameType_Delta
    /\ last.pkt.data = packBits(deltaBuffer(last.pkt.raw, last.pkt.ref))
    /\ last.pkt.crc32 = crc[last.pkt.data]

\* C10: when currentFrame equals the producer's reference buffer and the
\* consumer handles the producer's Delta message built from it, currentFrame
\* becomes the raw frame and the status is 0xA5.
DeltaCorrect ==
    (GenuineDelta /\ last.before = last.pkt.ref) =>
        (currentFrame = last.pkt.raw /\ last.status = <<STATUS_OK>>)

\* C10 witness: a Delta message that changes the frame was applied to a
\* non-zero currentFrame equal to the reference buffer.
DeltaCorrectWitness ==
    /\ GenuineDelta
    /\ last.before = last.pkt.ref
    /\ last.before # ZeroFrame
    /\ currentFrame # last.before
    /\ currentFrame = last.pkt.raw

\* The producer's messages on the wire and the one the consumer handled
\* last.  Damage on the link touches the checksum field only.
ProducerMessages ==
    {toMcu[k] : k \in {k \in 1..Len(toMcu) : toMcu[k].seq > 0}}
    \cup (IF last.pkt.seq > 0 THEN {last.pkt} ELSE {})

\* The byte-wise XOR of two raw frames, and whether its packed form is
\* shorter than a raw frame.
FrameXor(a, b) == [k \in 1..FRAME_SIZE_BYTES |-> BitXor(a[k], b[k])]
ShorterWhenPacked(m) == Len(packBits(FrameXor(m.raw, m.ref))) < FRAME_SIZE_BYTES

\* C11: a message of the producer is a Delta exactly when compression is
\* enabled, a reference buffer existed, the packed delta is strictly shorter
\* than a raw frame and the frame's number is no multiple of the keyframe
\* interval; then it carries the packed delta, and in every other case it
\* is a Full message carrying the raw frame.
DeltaPolicy ==
    \A m \in ProducerMessages :
        IF /\ COMPRESSION_ENABLED
           /\ m.ref # <<>>
           /\ m.seq % KEYFRAME_INTERVAL # 0
           /\ ShorterWhenPacked(m)
        THEN m.type = FrameType_Delta /\ m.data = packBits(FrameXor(m.raw, m.ref))
        ELSE m.type = FrameType_Full /\ m.data = m.raw

\* C11 witness: with compression enabled, the frame whose number is the
\* keyframe interval went out as a Full message although its packed delta
\* would have been shorter, next to a Delta message.
DeltaPolicyWitness ==
    /\ COMPRESSION_ENABLED
    /\ \E m \in ProducerMessages :
          /\ m.seq = KEYFRAME_INTERVAL
          /\ m.ref # <<>>
          /\ ShorterWhenPacked(m)
          /\ m.type = FrameType_Full
    /\ \E m \in ProducerMessages : m.type = FrameType_Delta

\* Numbers of the frames that are Full whatever they hold: the first, for
\* which no reference buffer exists, and every KEYFRAME_INTERVAL-th.
AlwaysFull(k) == k = 1 \/ k % KEYFRAME_INTERVAL = 0

\* C12: once a frame that is always Full and every frame after it up to the
\* latest have been handled by the consumer in order and accepted - which,
\* after a single lost or rejected Delta, is the case from the next keyframe
\* on, fewer than KEYFRAME_INTERVAL frames later - currentFrame equals the
\* producer's raw buffer of the latest frame, and stays so with every
\* further frame.
KeyframeBound ==
    (/\ intactFrom > 0
     /\ \E k \in intactFrom..last.pkt.seq : AlwaysFull(k))
    => currentFrame = last.pkt.raw

\* C12 witness: with compression enabled the frame before the keyframe never
\* reached the consumer, whose currentFrame differed from the producer's
\* reference buffer when the keyframe arrived; the keyframe made it equal to
\* the producer's raw buffer.
KeyframeBoundWitness ==
    /\ COMPRESSION_ENABLED
    /\ Called
    /\ last.pkt.seq = KEYFRAME_INTERVAL
    /\ intactFrom = KEYFRAME_INTERVAL
    /\ last.before # last.pkt.ref
    /\ last.before # last.pkt.raw
    /\ currentFrame = last.pkt.raw

\* The frames on the wire to the consumer.
FramesOnWire(wire) == {k \in 1..Len(wire) : wire[k].kind = "frame"}
PingsOnWire(wire) == {k \in 1..Len(wire) : wire[k] = pingPacket}

\* C13: when the port opens the producer writes the ping packet carrying
\* 0xFF, once, and as long as it has handled no status byte it has emitted no
\* frame and none is on the wire, whatever the capture source has delivered.
BootstrapOrdering ==
    [][/\ (~portOpen /\ portOpen') => toMcu' = Append(toMcu, pingPacket)
       /\ Cardinality(PingsOnWire(toMcu')) <= 1
       /\ rx' = <<>> => (frameCount' = 0 /\ FramesOnWire(toMcu') = {})]_vars

\* C13 witness: the port is open, the ping is on the wire, two frames are
\* buffered and no status byte has been handled: no frame has been emitted.
BootstrapOrderingWitness ==
    /\ portOpen
    /\ rx = <<>>
    /\ toMcu = <<pingPacket>>
    /\ Len(videoBuffer) >= 2 * FRAME_SIZE_BYTES
    /\ frameCount = 0

\* The serial 'data' handler reads a byte with one of these values.
StatusRead(codes) ==
    /\ portOpen
    /\ toHost # <<>>
    /\ Head(toHost).code \in codes
    /\ toHost' = Tail(toHost)

\* The gate is released: the timer of the frame awaited is cancelled, and
\* either the next buffered frame is emitted with a timer of its own or the
\* producer is READY with nothing emitted.
GateReleased ==
    /\ ackTimeout \notin timers'
    /\ IF Len(videoBuffer) >= FRAME_SIZE_BYTES
       THEN /\ frameCount' = frameCount + 1
            /\ videoBuffer' = SubSeq(videoBuffer, FRAME_SIZE_BYTES + 1, Len(videoBuffer))
            /\ ~isMcuReady'
            /\ Cardinality(timers') = 1
            /\ toMcu' # toMcu => toMcu'[Len(toMcu')].seq = frameCount'
       ELSE /\ frameCount' = frameCount
            /\ isMcuReady'
            /\ timers' = {}
            /\ toMcu' = toMcu

\* C14: a status byte 0xE1, 0xE2 or 0xE3 releases the gate exactly as 0xA5
\* does: whichever of the four the producer reads, in whatever state, the
\* timer is cancelled and the next frame is emitted if one is buffered, the
\* producer READY otherwise.
ErrorStatusReleases ==
    [][StatusRead({STATUS_OK, STATUS_ERR_VERIFY, STATUS_ERR_NODATA, STATUS_ERR_OTHER})
          => GateReleased]_vars

\* C14 witness: the last status byte handled was 0xE3; it came while frame 1
\* was awaited, no timer has ever expired, and it let frame 2 out.
ErrorStatusReleasesWitness ==
    /\ rx = <<STATUS_ERR_OTHER>>
    /\ ~isMcuReady
    /\ frameCount = 2
    /\ outstanding = {1, 2}
    /\ timers = {2}

\* The queue as the step's handler found it: as it was, or with the chunk
\* of a 'data' event added.
QueueFound ==
    IF dataEvents' = dataEvents THEN {videoBuffer}
    ELSE {Trim(videoBuffer \o Chunk(n)) : n \in ChunkSizes}

FrameNumbersOnWire(wire) == {wire[k].seq : k \in FramesOnWire(wire)}

\* C15: a step emits at most one frame; the frame it emits is the one at the
\* front of the queue, which leaves the queue in the same step and so is
\* never written again, whether a status byte, a timer expiry or a 'data'
\* event made the producer send; and a step that emits nothing puts no frame
\* on the wire.
NoRetransmission ==
    [][/\ frameCount' \in {frameCount, frameCount + 1}
       /\ frameCount' = frameCount + 1 =>
             /\ Len(previousFrameBuffer') = FRAME_SIZE_BYTES
             /\ previousFrameBuffer' \o videoBuffer' \in QueueFound
             /\ \/ toMcu' = toMcu
                \/ /\ Len(toMcu') = Len(toMcu) + 1
                   /\ SubSeq(toMcu', 1, Len(toMcu)) = toMcu
                   /\ toMcu'[Len(toMcu')].seq = frameCount'
                   /\ toMcu'[Len(toMcu')].raw = previousFrameBuffer'
       /\ frameCount' = frameCount =>
             FrameNumbersOnWire(toMcu') \subseteq FrameNumbersOnWire(toMcu)
       /\ Cardinality(FrameNumbersOnWire(toMcu')) = Cardinality(FramesOnWire(toMcu'))]_vars

\* C15 witness: the consumer has handled nothing, the timer of frame 1 has
\* expired and frame 2, another frame than frame 1, is on the wire behind
\* it.
NoRetransmissionWitness ==
    /\ last = NoCall
    /\ Len(toMcu) = 2
    /\ toMcu[1].seq = 1
    /\ toMcu[2].seq = 2
    /\ toMcu[1].raw # toMcu[2].raw
    /\ outstanding = {2}

\* C16: an accepted Delta whose payload does not decode to exactly one
\* frame is discarded: currentFrame stays as it was, the unchanged frame is
\* still rendered, and the status sent is STATUS_OK.
TruncatedDeltaAcknowledged ==
    (Called /\ Accepted(last.pkt) /\ last.pkt.type = FrameType_Delta
        /\ unpackBits(last.pkt.data, FRAME_SIZE_BYTES).j # FRAME_SIZE_BYTES)
    => /\ currentFrame = last.before
       /\ last.shown
       /\ last.status = <<STATUS_OK>>

\* C16 witness: an accepted Delta that decoded to nothing at all was
\* rendered and acknowledged over a frame that is not blank.
TruncatedDeltaAcknowledgedWitness ==
    /\ Called
    /\ Accepted(last.pkt)
    /\ last.pkt.type = FrameType_Delta
    /\ last.pkt.data # <<>>
    /\ unpackBits(last.pkt.data, FRAME_SIZE_BYTES).j = 0
    /\ last.before # ZeroFrame
    /\ last.shown
    /\ toHost = <<Status(STATUS_OK, 0)>>

\* C19: a call of the handler on a non-empty packet writes exactly one
\* status byte, whichever path it takes; a call on a zero-length packet
\* writes none, changes no frame and renders nothing.  So the status bytes
\* written after startup are as many as the non-empty packets handled.
OneStatusPerPacket ==
    [][(last.calls = 0 /\ last'.calls = 1) =>
          IF last'.pkt.kind = "empty"
          THEN /\ last'.status = <<>>
               /\ toHost' = toHost
               /\ currentFrame' = currentFrame
               /\ ~last'.shown
          ELSE /\ Len(last'.status) = 1
               /\ last'.status[1] \in {STATUS_OK, STATUS_ERR_VERIFY, STATUS_ERR_NODATA}
               /\ toHost' = Append(toHost, Status(last'.status[1], last'.pkt.seq))]_vars

\* C19 witness: a frame without a data field was handled and its one status
\* byte is on the wire.
OneStatusPerPacketWitness ==
    /\ Called
    /\ last.pkt.kind = "frame"
    /\ ~last.pkt.hasData
    /\ Len(toHost) = 1
    /\ toHost[1].code = STATUS_ERR_NODATA

\* A pending timer expires: no byte is read, no chunk arrives, a timer goes.
TimerExpires ==
    /\ toHost' = toHost
    /\ dataEvents' = dataEvents
    /\ \E handle \in timers : handle \notin timers'

\* C17: at most one acknowledgement timer is pending, and it is the timer of
\* the latest frame while the producer awaits its answer; once ackReceived
\* has handled a status byte no timer that was pending before is pending
\* any more; and a timer expires only while the producer is AWAITING_ACK.
TimerCancellation ==
    [][/\ Cardinality(timers') <= 1
       /\ timers' # {} => (~isMcuReady' /\ timers' = {frameCount'} /\ ackTimeout' = frameCount')
       /\ StatusRead({STATUS_OK, STATUS_ERR_VERIFY, STATUS_ERR_NODATA, STATUS_ERR_OTHER})
             => (ackTimeout \notin timers' /\ timers \cap timers' = {})
       /\ TimerExpires => ~isMcuReady]_vars

\* C17 witness: the success status arrived while frame 1 was awaited, its
\* timer is gone and the only timer pending is that of frame 2.
TimerCancellationWitness ==
    /\ rx = <<STATUS_OK>>
    /\ frameCount = 2
    /\ ackTimeout = 2
    /\ timers = {2}
    /\ ~isMcuReady
    /\ toHost = <<>>

\* The producer writes a message to the serial link.
Emitted(m) ==
    /\ toMcu' = Append(toMcu, m)
    /\ m.kind = "frame"

\* C18: every message the producer emits carries a non-empty payload and, as
\* its checksum, what the consumer's crc32 computes over exactly these
\* payload bytes; so the message as emitted passes every check of the
\* consumer's handler.
ChecksumAgreement ==
    [][\A k \in 1..Len(toMcu') :
          Emitted(toMcu'[k]) =>
             /\ k = Len(toMcu')
             /\ toMcu'[k].hasData
             /\ toMcu'[k].data # <<>>
             /\ toMcu'[k].crc32 = crc32(toMcu'[k].data)
             /\ RejectStatus(toMcu'[k]) = 0]_vars

\* C18 witness: a Delta message arrived as the producer emitted it, with the
\* checksum of stream.js over its packed payload, and was acknowledged.
ChecksumAgreementWitness ==
    /\ Called
    /\ last.pkt.seq = 2
    /\ last.pkt.type = FrameType_Delta
    /\ last.pkt.crc32 = crc32Js(last.pkt.data)
    /\ last.status = <<STATUS_OK>>
    /\ currentFrame = last.pkt.raw

\* The frames of the capture source's stream.
SourceFrames ==
    {SubSeq(video, f * FRAME_SIZE_BYTES + 1, (f + 1) * FRAME_SIZE_BYTES) :
        f \in 0..((Len(video) \div FRAME_SIZE_BYTES) - 1)}

\* Where in a source frame the queue's first byte lies: the source has
\* delivered up to srcPos and the queue holds the last Len(videoBuffer)
\* bytes of that.
QueueOffset ==
    (srcPos + QueueFrames * FRAME_SIZE_BYTES - Len(videoBuffer)) % FRAME_SIZE_BYTES

\* C20: the queue starts at a frame boundary of the source's stream, the
\* buffer dequeued last is one whole source frame, and the queue holds at
\* most five frames once a handler has returned.
QueueAligned ==
    /\ Len(videoBuffer) <= QueueFrames * FRAME_SIZE_BYTES
    /\ QueueOffset = 0
    /\ previousFrameBuffer # <<>> => previousFrameBuffer \in SourceFrames

====
